---- MODULE Spec2Model ----
(***************************************************************************)
(* A model of the label verification backend:                              *)
(*   backend/verification_service.py  (field checks, verify_label)         *)
(*   backend/ocr_service.py           (extract_text_from_image)            *)
(*   backend/app.py                   (POST /verify and its temp file)     *)
(*                                                                         *)
(* A Python str is a sequence of one-character strings, <<"4","5","%">>.   *)
(* A message built by an f-string is a sequence whose first element is the *)
(* literal text and whose remaining elements are the interpolated parts.   *)
(***************************************************************************)
EXTENDS Integers, Sequences, FiniteSets, TLC

VARIABLES
  \* A call of verification_service.verify_label
  vform,       \* its form_data argument: a dict of str
  vtext,       \* its ocr_text argument
  results,     \* the dict it returns (None until it has returned)
  vpc,         \* "call" before the call, "return" after it, "off" when unused
  \* A call of ocr_service.extract_text_from_image
  oenv,        \* what the file system, Pillow and Tesseract do during the call
  oresult,     \* how the call ends: a returned dict or a raised exception
  opc,         \* "call" before the call, "return" after it, "off" when unused
  \* POST /verify requests handled by app.verify, one thread each
  pc,          \* the place of each request in verify()
  request,     \* each request as received: request.files and request.form
  frame,       \* the local variables of each call of verify()
  response,    \* the response of each request (None until it is returned)
  fs,          \* the temporary directory: a dict from path to file content
  log          \* what each request has done so far, in order

verifyVars == <<vform, vtext, results, vpc>>

ocrVars == <<oenv, oresult, opc>>

httpVars == <<pc, request, frame, response, fs, log>>

vars == <<vform, vtext, results, vpc, oenv, oresult, opc,
          pc, request, frame, response, fs, log>>

\* ------------------------------------------------------------------------
\* Python values
\* ------------------------------------------------------------------------

\* Python's None, distinct from every str (a str holds one-character items).
None == <<"None">>

UpperAlpha == <<"A","B","C","D","E","F","G","H","I","J","K","L","M",
                "N","O","P","Q","R","S","T","U","V","W","X","Y","Z">>

LowerAlpha == <<"a","b","c","d","e","f","g","h","i","j","k","l","m",
                "n","o","p","q","r","s","t","u","v","w","x","y","z">>

Digits == {"0","1","2","3","4","5","6","7","8","9"}

\* The characters str.strip() removes and the regex \s matches (ASCII part).
Whitespace == {" ", "\t", "\n", "\r", "\f"}

Range(s) == {s[i] : i \in 1..Len(s)}

IsUpper(c) == \E i \in 1..26 : UpperAlpha[i] = c

IsLetter(c) == c \in Range(UpperAlpha) \/ c \in Range(LowerAlpha)

\* A regex word character, \w.
IsWord(c) == IsLetter(c) \/ c \in Digits \/ c = "_"

LowerChar(c) == IF IsUpper(c) THEN LowerAlpha[CHOOSE i \in 1..26 : UpperAlpha[i] = c] ELSE c

\* str.lower()
Lower(s) == [i \in 1..Len(s) |-> LowerChar(s[i])]

\* str.strip(): the text between the first and the last non-whitespace character.
Strip(s) ==
  LET keep == {i \in 1..Len(s) : s[i] \notin Whitespace}
  IN  IF keep = {} THEN <<>>
      ELSE SubSeq(s, CHOOSE i \in keep : \A j \in keep : i <= j,
                     CHOOSE i \in keep : \A j \in keep : j <= i)

\* needle in haystack
Contains(hay, needle) ==
  \E i \in 1..(Len(hay) - Len(needle) + 1) : SubSeq(hay, i, i + Len(needle) - 1) = needle

\* str.replace(c, ''): every occurrence of the character removed.
RECURSIVE RemoveChar(_, _)
RemoveChar(s, c) ==
  IF s = <<>> THEN <<>>
  ELSE IF Head(s) = c THEN RemoveChar(Tail(s), c)
       ELSE <<Head(s)>> \o RemoveChar(Tail(s), c)

\* Python truthiness of a str.
Truthy(s) == s # <<>>

\* ------------------------------------------------------------------------
\* Regular expressions (Python's re, backtracking)
\*
\* A pattern is a sequence of items [k, q, ...]: k is the kind of atom
\*   "chr" one literal character c      "set" one character of the set cs
\*   "any" the dot: any but a newline   "bnd" \b      "grp" (?: r )
\* and q its quantifier "1", "?", "*" or "+" (all greedy).
\* ------------------------------------------------------------------------

Chr(c) == [k |-> "chr", q |-> "1", c |-> c]

\* re.escape(s): every character of s stands for itself.
Escape(s) == [i \in 1..Len(s) |-> Chr(s[i])]

\* A str used as a pattern without escaping: a dot matches any character.
Unescaped(s) ==
  [i \in 1..Len(s) |-> IF s[i] = "." THEN [k |-> "any", q |-> "1"] ELSE Chr(s[i])]

\* \b holds before position i when exactly one of s[i-1], s[i] is a word character.
WordAt(s, i) == i >= 1 /\ i <= Len(s) /\ IsWord(s[i])

WordBoundary(s, i) == WordAt(s, i - 1) # WordAt(s, i)

RECURSIVE Ends(_, _, _, _)
RECURSIVE EndsFrom(_, _, _, _)
RECURSIVE StarEnds(_, _, _, _)
RECURSIVE StarFrom(_, _, _, _)

\* The positions after one match of atom a at position i, in the order tried.
AtomEnds(a, s, i, ic) ==
  CASE a.k = "chr" ->
         IF i <= Len(s) /\ (s[i] = a.c \/ (ic /\ LowerChar(s[i]) = LowerChar(a.c)))
         THEN <<i + 1>> ELSE <<>>
    [] a.k = "set" ->
         IF i <= Len(s) /\ (s[i] \in a.cs \/ (ic /\ LowerChar(s[i]) \in a.cs))
         THEN <<i + 1>> ELSE <<>>
    [] a.k = "any" -> IF i <= Len(s) /\ s[i] # "\n" THEN <<i + 1>> ELSE <<>>
    [] a.k = "bnd" -> IF WordBoundary(s, i) THEN <<i>> ELSE <<>>
    [] a.k = "grp" -> Ends(a.r, s, i, ic)

\* a* at position i: longest first, the empty match last.
StarEnds(a, s, i, ic) ==
  StarFrom(a, s, SelectSeq(AtomEnds(a, s, i, ic), LAMBDA e : e > i), ic) \o <<i>>

StarFrom(a, s, es, ic) ==
  IF es = <<>> THEN <<>>
  ELSE StarEnds(a, s, Head(es), ic) \o StarFrom(a, s, Tail(es), ic)

ItemEnds(a, s, i, ic) ==
  CASE a.q = "1" -> AtomEnds(a, s, i, ic)
    [] a.q = "?" -> AtomEnds(a, s, i, ic) \o <<i>>
    [] a.q = "*" -> StarEnds(a, s, i, ic)
    [] a.q = "+" -> StarFrom(a, s, AtomEnds(a, s, i, ic), ic)

\* The positions after a match of pattern re starting at i, in the order the
\* backtracking matcher finds them: the first is the match re.match returns.
Ends(re, s, i, ic) ==
  IF re = <<>> THEN <<i>>
  ELSE EndsFrom(Tail(re), s, ItemEnds(Head(re), s, i, ic), ic)

EndsFrom(re, s, es, ic) ==
  IF es = <<>> THEN <<>>
  ELSE Ends(re, s, Head(es), ic) \o EndsFrom(re, s, Tail(es), ic)

NoMatch == [start |-> 0, end |-> 0]

\* re.search(re, s): the match at the leftmost position that has one;
\* group(0) is s[start .. end-1].
Search(re, s, ic) ==
  LET starts == {i \in 1..(Len(s) + 1) : Ends(re, s, i, ic) # <<>>}
  IN  IF starts = {} THEN NoMatch
      ELSE LET i == CHOOSE x \in starts : \A y \in starts : x <= y
           IN  [start |-> i, end |-> Head(Ends(re, s, i, ic))]

Group0(s, m) == SubSeq(s, m.start, m.end - 1)

\* ------------------------------------------------------------------------
\* backend/verification_service.py
\* ------------------------------------------------------------------------

\* dict.get(key, default)
Get(d, key, default) == IF key \in DOMAIN d THEN d[key] ELSE default

\* _normalize_text: text.lower().strip()
NormalizeText(text) == Strip(Lower(text))

\* _check_brand_name with the form input lowercased but not stripped.
CheckBrandNameNoStrip(brand_name, normalized_ocr) ==
  IF ~Truthy(brand_name)
  THEN [match |-> FALSE, expected |-> <<>>, found |-> None,
        error |-> <<"Brand name not provided in form">>]
  ELSE IF Contains(normalized_ocr, Lower(brand_name))
       THEN [match |-> TRUE, expected |-> brand_name, found |-> Lower(brand_name)]
       ELSE [match |-> FALSE, expected |-> brand_name, found |-> None,
             error |-> <<"Brand name '">> \o brand_name \o <<"' not found in label">>]

\* _check_brand_name
CheckBrandName(brand_name, normalized_ocr) ==
  IF ~Truthy(brand_name)
  THEN [match |-> FALSE, expected |-> <<>>, found |-> None,
        error |-> <<"Brand name not provided in form">>]
  ELSE LET normalized_brand == NormalizeText(brand_name)
       IN  IF Contains(normalized_ocr, normalized_brand)
           THEN [match |-> TRUE, expected |-> brand_name, found |-> normalized_brand]
           ELSE [match |-> FALSE, expected |-> brand_name, found |-> None,
                 error |-> <<"Brand name '">> \o brand_name \o <<"' not found in label">>]

\* _check_product_type
CheckProductType(product_type, normalized_ocr) ==
  IF ~Truthy(product_type)
  THEN [match |-> FALSE, expected |-> <<>>, found |-> None,
        error |-> <<"Product type not provided in form">>]
  ELSE LET normalized_type == NormalizeText(product_type)
       IN  IF Contains(normalized_ocr, normalized_type)
           THEN [match |-> TRUE, expected |-> product_type, found |-> normalized_type]
           ELSE [match |-> FALSE, expected |-> product_type, found |-> None,
                 error |-> <<"Product type '">> \o product_type \o <<"' not found in label">>]

\* abv.strip().replace('%', '').strip()
AbvClean(abv) == Strip(RemoveChar(Strip(abv), "%"))

\* The ABV pattern without its leading \b.
AbvPatternNoBoundary(abv_clean) ==
  Escape(abv_clean) \o
  <<[k |-> "grp", q |-> "?", r |-> <<Chr("."), Chr("0")>>],
    [k |-> "set", q |-> "*", cs |-> Whitespace],
    Chr("%")>>

\* r'\b' + re.escape(abv_clean) + r'(?:\.0)?\s*%'
AbvPattern(abv_clean) ==
  <<[k |-> "bnd", q |-> "1"]>> \o Escape(abv_clean) \o
  <<[k |-> "grp", q |-> "?", r |-> <<Chr("."), Chr("0")>>],
    [k |-> "set", q |-> "*", cs |-> Whitespace],
    Chr("%")>>

\* _check_abv
CheckAbv(abv, normalized_ocr) ==
  IF ~Truthy(abv)
  THEN [match |-> FALSE, expected |-> <<>>, found |-> None,
        error |-> <<"ABV not provided in form">>]
  ELSE LET m == Search(AbvPattern(AbvClean(abv)), normalized_ocr, FALSE)
       IN  IF m # NoMatch
           THEN [match |-> TRUE, expected |-> abv \o <<"%">>,
                 found |-> Group0(normalized_ocr, m)]
           ELSE [match |-> FALSE, expected |-> abv \o <<"%">>, found |-> None,
                 error |-> <<"ABV '">> \o abv \o <<"%' not found in label">>]

\* The three parts of r'(\d+(?:\.\d+)?)\s*([a-z.\s]+)'
VolumeNumberRe ==
  <<[k |-> "set", q |-> "+", cs |-> Digits],
    [k |-> "grp", q |-> "?", r |-> <<Chr("."), [k |-> "set", q |-> "+", cs |-> Digits]>>]>>

VolumeSpaceRe == <<[k |-> "set", q |-> "*", cs |-> Whitespace]>>

VolumeUnitRe ==
  <<[k |-> "set", q |-> "+", cs |-> Range(LowerAlpha) \cup {"."} \cup Whitespace]>>

\* re.search of the volume pattern in s: the leftmost match, with group(1),
\* group(2) the groups of the first way the matcher finds to match there.
VolumeSearch(s) ==
  LET whole  == VolumeNumberRe \o VolumeSpaceRe \o VolumeUnitRe
      starts == {i \in 1..(Len(s) + 1) : Ends(whole, s, i, FALSE) # <<>>}
  IN  IF starts = {} THEN [found |-> FALSE]
      ELSE LET i    == CHOOSE x \in starts : \A y \in starts : x <= y
               rest == VolumeSpaceRe \o VolumeUnitRe
               e1   == Head(SelectSeq(Ends(VolumeNumberRe, s, i, FALSE),
                                      LAMBDA e : Ends(rest, s, e, FALSE) # <<>>))
               e2   == Head(SelectSeq(Ends(VolumeSpaceRe, s, e1, FALSE),
                                      LAMBDA e : Ends(VolumeUnitRe, s, e, FALSE) # <<>>))
               e3   == Head(Ends(VolumeUnitRe, s, e2, FALSE))
           IN  [found |-> TRUE, group1 |-> SubSeq(s, i, e1 - 1),
                group2 |-> SubSeq(s, e2, e3 - 1)]

\* The volume pattern without \s* between number and unit.
VolumePatternNoSpace(number, unit) == Unescaped(number) \o Escape(unit)

\* number + r'\s*' + re.escape(unit)
VolumePattern(number, unit) ==
  Unescaped(number) \o <<[k |-> "set", q |-> "*", cs |-> Whitespace]>> \o Escape(unit)

\* _check_net_contents
CheckNetContents(net_contents, normalized_ocr) ==
  IF net_contents = None \/ ~Truthy(net_contents)
  THEN [match |-> TRUE, expected |-> <<"Not provided">>, found |-> <<"Not checked">>]
  ELSE LET normalized_contents == NormalizeText(net_contents)
           volume_match == VolumeSearch(normalized_contents)
       IN  IF ~volume_match.found
           THEN [match |-> FALSE, expected |-> net_contents, found |-> None,
                 error |-> <<"Could not parse volume format from form input">>]
           ELSE LET number == volume_match.group1
                    unit   == Strip(volume_match.group2)
                    m      == Search(VolumePattern(number, unit), normalized_ocr, TRUE)
                IN  IF m # NoMatch
                    THEN [match |-> TRUE, expected |-> net_contents,
                          found |-> Group0(normalized_ocr, m)]
                    ELSE [match |-> FALSE, expected |-> net_contents, found |-> None,
                          error |-> <<"Net contents '">> \o net_contents
                                    \o <<"' not found in label">>]

GovernmentWarning ==
  <<"g","o","v","e","r","n","m","e","n","t"," ","w","a","r","n","i","n","g">>

\* _check_government_warning
CheckGovernmentWarning(normalized_ocr) ==
  IF Contains(normalized_ocr, GovernmentWarning)
  THEN [match |-> TRUE, expected |-> <<"Government Warning Present">>,
        found |-> <<"GOVERNMENT WARNING">>]
  ELSE [match |-> FALSE, expected |-> <<"Government Warning Present">>, found |-> None,
        error |-> <<"Government warning statement not found on label">>]

\* The fields verify_label requires for overall_match, in the order it visits them.
RequiredFields == <<"brand_name", "product_type", "abv">>

\* overall_match taken over every entry of details, not the required ones.
OverallMatchEveryField(details, fields) == \A f \in DOMAIN details : details[f].match

\* for field in required_fields: if not details[field]["match"]: overall = False; break
RECURSIVE OverallMatch(_, _)
OverallMatch(details, fields) ==
  IF fields = <<>> THEN TRUE
  ELSE IF ~details[Head(fields)].match THEN FALSE
       ELSE OverallMatch(details, Tail(fields))

\* The net_contents entry of details: present only if the form gives a value.
NetContentsDetail(form_data, normalized_ocr) ==
  LET net_contents == Get(form_data, "net_contents", None)
  IN  IF net_contents # None /\ Truthy(net_contents)
      THEN "net_contents" :> CheckNetContents(net_contents, normalized_ocr)
      ELSE <<>>

\* verify_label
VerifyLabel(form_data, ocr_text) ==
  LET normalized_ocr == NormalizeText(ocr_text)
      details ==
        ("brand_name" :> CheckBrandName(Get(form_data, "brand_name", <<>>), normalized_ocr))
        @@ ("product_type" :>
              CheckProductType(Get(form_data, "product_type", <<>>), normalized_ocr))
        @@ ("abv" :> CheckAbv(Get(form_data, "abv", <<>>), normalized_ocr))
        @@ NetContentsDetail(form_data, normalized_ocr)
        @@ ("government_warning" :> CheckGovernmentWarning(normalized_ocr))
  IN  [overall_match |-> OverallMatch(details, RequiredFields),
       details |-> details,
       ocr_text |-> ocr_text]

\* ------------------------------------------------------------------------
\* backend/ocr_service.py
\* ------------------------------------------------------------------------

\* How a call ends: it returns a value, or raises an exception of a class
\* with a message (str(e)).
Return(value) == [raises |-> FALSE, value |-> value]

Raise(class, msg) == [raises |-> TRUE, class |-> class, msg |-> msg]

\* The classes Pillow, pytesseract and the file system raise; all derive from
\* Exception.
ExceptionClasses ==
  {"TesseractNotFoundError", "TesseractError", "UnidentifiedImageError", "FileNotFoundError"}

EngineNotInstalled ==
  <<"Tesseract OCR is not installed. Please install it: sudo apt-get install tesseract-ocr">>

NoTextFound ==
  <<"No text could be extracted from the image. The image may be too blurry, too dark, or contain no text.">>

OcrFailure(error) == [success |-> FALSE, text |-> <<>>, error |-> error]

\* The try block: Image.open, _preprocess_image, image_to_string, strip and
\* the empty text check; the first call that raises ends it.
OcrTry(env) ==
  IF env.open.raises THEN env.open
  ELSE IF env.preprocess.raises THEN env.preprocess
  ELSE IF env.recognize.raises THEN env.recognize
  ELSE LET extracted_text == Strip(env.recognize.value)
       IN  IF ~Truthy(extracted_text) THEN Return(OcrFailure(NoTextFound))
           ELSE Return([success |-> TRUE, text |-> extracted_text, error |-> None])

\* The except clauses with only the TesseractNotFoundError one.
OcrExceptNotFoundOnly(e) ==
  IF e.class = "TesseractNotFoundError" THEN Return(OcrFailure(EngineNotInstalled)) ELSE e

\* The except clauses: TesseractNotFoundError, then Exception.
OcrExcept(e) ==
  IF e.class = "TesseractNotFoundError" THEN Return(OcrFailure(EngineNotInstalled))
  ELSE IF e.class \in ExceptionClasses
       THEN Return(OcrFailure(<<"Error processing image: ">> \o e.msg))
       ELSE e

\* extract_text_from_image
ExtractTextFromImage(env) ==
  IF ~env.exists THEN Return(OcrFailure(<<"Image file not found: ">> \o env.path))
  ELSE LET body == OcrTry(env)
       IN  IF body.raises THEN OcrExcept(body) ELSE body

\* ------------------------------------------------------------------------
\* Calls of verify_label on bounded inputs
\* ------------------------------------------------------------------------

\* The longest form input drawn character by character.
MaxInputLen == 2

\* The most fragments an OCR text is put together from.
MaxFragments == 3

\* All concatenations of at most n elements of the set F of strs.
RECURSIVE Concats(_, _)
Concats(F, n) ==
  IF n = 0 THEN {<<>>}
  ELSE LET shorter == Concats(F, n - 1)
       IN  shorter \cup {p \o f : p \in shorter, f \in F}

\* verify_label is called and returns.
CallVerifyLabel ==
  /\ vpc = "call"
  /\ results' = VerifyLabel(vform, vtext)
  /\ vpc' = "return"
  /\ UNCHANGED <<vform, vtext>>
  /\ UNCHANGED ocrVars
  /\ UNCHANGED httpVars

NextVerify == CallVerifyLabel

\* No call of extract_text_from_image is modelled.
OcrOff == oenv = None /\ oresult = None /\ opc = "off"

\* No call of verify_label is modelled.
VerifyOff == vform = None /\ vtext = None /\ results = None /\ vpc = "off"

\* No request is modelled.
HttpOff ==
  /\ pc = None /\ request = None /\ frame = None
  /\ response = None /\ fs = None /\ log = None

\* --- brand name and product type inputs ---------------------------------

NameInputs == Concats({<<"a">>, <<"B">>, <<" ">>}, MaxInputLen)

NameTexts == Concats({<<"a">>, <<"b">>, <<"A">>, <<" ">>}, MaxFragments)

\* One of the two name fields takes every input, the other a fixed name.
InitName ==
  /\ \E B \in NameInputs, other \in {<<"a">>, <<"b", "a">>} :
       vform \in {[brand_name |-> B, product_type |-> other,
                       abv |-> <<"5">>, net_contents |-> <<>>],
                      [brand_name |-> other, product_type |-> B,
                       abv |-> <<"5">>, net_contents |-> <<>>]}
  /\ vtext \in NameTexts
  /\ results = None
  /\ vpc = "call"
  /\ OcrOff
  /\ HttpOff

SpecName == InitName /\ [][NextVerify]_vars

\* --- ABV inputs ---------------------------------------------------------

MaxAbvFragments == 4

AbvInputs == {<<"4","5">>, <<"4","5","%">>, <<"5">>}

AbvFragments == {<<"4","5">>, <<"%">>, <<".","0">>, <<" ">>, <<"1">>, <<"0">>, <<"a">>, <<"4",".">>, <<"5">>}

AbvTexts == Concats(AbvFragments, MaxAbvFragments)

InitAbv ==
  /\ vform \in [brand_name : {<<"a">>}, product_type : {<<"a">>}, abv : AbvInputs,
                net_contents : {<<>>}]
  /\ vtext \in AbvTexts
  /\ results = None
  /\ vpc = "call"
  /\ OcrOff
  /\ HttpOff

SpecAbv == InitAbv /\ [][NextVerify]_vars

\* --- net contents inputs ------------------------------------------------

MaxNetFragments == 3

NetInputs ==
  {<<"7","5","0"," ","m","l">>, <<"7","5","0","m","l">>, <<"7","5","0"," ","M","L">>, <<" ","7","5","0"," "," ","M","l"," ">>, <<"1","2"," ","f","l"," ","o","z">>, <<"7"," ","5","0"," ","m","l">>, <<"7","5","0">>, <<"m","l">>}

NetFragments ==
  {<<"7","5","0">>, <<"m","l">>, <<"M","L">>, <<" ">>, <<"1">>, <<"a">>, <<"1","2">>, <<"f","l"," ","o","z">>, <<"F","L"," ","O","Z">>, <<"f","l","."," ","o","z">>}

NetTexts == Concats(NetFragments, MaxNetFragments)

InitNet ==
  /\ vform \in [brand_name : {<<"a">>}, product_type : {<<"a">>}, abv : {<<"5">>},
                net_contents : NetInputs]
  /\ vtext \in NetTexts
  /\ results = None
  /\ vpc = "call"
  /\ OcrOff
  /\ HttpOff

SpecNet == InitNet /\ [][NextVerify]_vars

\* --- whole forms --------------------------------------------------------

MaxLabelFragments == 3

LabelFragments == {<<"a">>, <<"B">>, <<"4","5","%">>, <<"7","5","0","m","l">>, <<" ","g","o","v","e","r","n","m","e","n","t"," ","w","a","r","n","i","n","g"," ">>}

LabelTexts == Concats(LabelFragments, MaxLabelFragments)

\* Forms with every field filled or empty, and net_contents also absent.
LabelForms ==
  LET required == [brand_name : {<<>>, <<"a">>}, product_type : {<<>>, <<"b">>},
                   abv : {<<>>, <<"4","5">>}]
  IN  required \cup
      {f @@ ("net_contents" :> n) : f \in required, n \in {<<>>, <<"7","5","0"," ","m","l">>, <<"m","l">>}}

InitVerify ==
  /\ vform \in LabelForms
  /\ vtext \in LabelTexts
  /\ results = None
  /\ vpc = "call"
  /\ OcrOff
  /\ HttpOff

SpecVerify == InitVerify /\ [][NextVerify]_vars

\* ------------------------------------------------------------------------
\* Properties of verify_label
\* ------------------------------------------------------------------------

Returned == vpc = "return"

Detail(field) == results.details[field]

\* C1: overall_match is true exactly when the brand_name, product_type and abv
\* results all match; the net_contents and government_warning results have no
\* part in it.
C1_OverallIsRequiredFields ==
  Returned =>
    (results.overall_match <=>
       (Detail("brand_name").match /\ Detail("product_type").match /\ Detail("abv").match))

\* C1 witness: the three required fields match, the warning is absent and the
\* net contents check fails, and overall_match is true.
C1_Witness ==
  /\ Returned
  /\ results.overall_match
  /\ ~Detail("government_warning").match
  /\ "net_contents" \in DOMAIN results.details
  /\ ~Detail("net_contents").match

NameFields == {"brand_name", "product_type"}

\* C5 as stated: match is true if lowercase(B) is a substring of lowercase(T),
\* and false otherwise.
C5_Original ==
  Returned =>
    \A f \in NameFields : Detail(f).match <=> Contains(Lower(vtext), Lower(vform[f]))

\* C5 amended: match is true exactly when B is not empty and lowercase(B) with
\* its leading and trailing whitespace removed is a substring of lowercase(T).
C5_NameCheck ==
  Returned =>
    \A f \in NameFields :
      Detail(f).match <=>
        (vform[f] # <<>> /\ Contains(Lower(vtext), Strip(Lower(vform[f]))))

\* C5 witness: an input padded with whitespace matches a text that does not
\* hold the padded input.
C5_Witness ==
  /\ Returned
  /\ \E f \in NameFields :
       /\ Detail(f).match
       /\ Strip(vform[f]) # vform[f]
       /\ Strip(vform[f]) # <<>>
       /\ ~Contains(Lower(vtext), Lower(vform[f]))

\* needle occurs in text at its start or right after a non-word character.
OccursAtBoundary(text, needle) ==
  \E i \in 1..(Len(text) - Len(needle) + 1) :
    /\ SubSeq(text, i, i + Len(needle) - 1) = needle
    /\ (i = 1 \/ ~IsWord(text[i - 1]))

\* The only "%" of text ends the number 145 or 450.
OnlyPercentage145Or450(text) ==
  /\ Cardinality({i \in 1..Len(text) : text[i] = "%"}) = 1
  /\ LET p == CHOOSE i \in 1..Len(text) : text[i] = "%"
     IN  p > 3 /\ SubSeq(text, p - 3, p - 1) \in {<<"1","4","5">>, <<"4","5","0">>}

Abv45 == vform.abv \in {<<"4","5">>, <<"4","5","%">>}

\* C6 as stated: input 45 (or 45%) matches every text containing "45%", "45.0%"
\* or "45 %", and does not match a text whose only percentage is 145% or 450%
\* (such a text, which contains "45%" too, is read as the exception it names).
C6_Original ==
  (Returned /\ Abv45) =>
    /\ (~OnlyPercentage145Or450(vtext)
          /\ (Contains(vtext, <<"4","5","%">>) \/ Contains(vtext, <<"4","5",".","0","%">>)
                \/ Contains(vtext, <<"4","5"," ","%">>)))
         => Detail("abv").match
    /\ OnlyPercentage145Or450(vtext) => ~Detail("abv").match

\* C6 amended: input 45 (or 45%) matches every text in which "45%", "45.0%" or
\* "45 %" stands at the start or right after a character that is not a letter,
\* a digit or an underscore, and does not match a text whose only percentage
\* is 145% or 450%.
C6_Abv45 ==
  (Returned /\ Abv45) =>
    /\ (OccursAtBoundary(vtext, <<"4","5","%">>) \/ OccursAtBoundary(vtext, <<"4","5",".","0","%">>)
          \/ OccursAtBoundary(vtext, <<"4","5"," ","%">>))
         => Detail("abv").match
    /\ OnlyPercentage145Or450(vtext) => ~Detail("abv").match

\* C6 witness: input "45%" finds "45.0%" after a space.
C6_Witness ==
  /\ Returned
  /\ vform.abv = <<"4","5","%">>
  /\ OccursAtBoundary(vtext, <<"4","5",".","0","%">>)
  /\ ~OccursAtBoundary(vtext, <<"4","5","%">>)
  /\ vtext[1] = " "
  /\ Detail("abv").match
  /\ Detail("abv").found = <<"4","5",".","0","%">>

\* C7 as stated: with net_contents absent or empty the result holds a
\* net_contents entry with match = true and the "Not checked" marker.
C7_NotCheckedEntry ==
  (Returned /\ Get(vform, "net_contents", <<>>) = <<>>) =>
    /\ "net_contents" \in DOMAIN results.details
    /\ Detail("net_contents").match
    /\ Detail("net_contents").found = <<"Not checked">>

\* The number a normalized net contents input starts with: its leading digits
\* and, if a dot and digits follow them, those too.
LeadingNumber(s) ==
  LET digitsFrom(i) ==
        IF \E j \in i..Len(s) : s[j] \notin Digits
        THEN (CHOOSE j \in i..Len(s) :
                s[j] \notin Digits /\ \A x \in i..(j - 1) : s[x] \in Digits) - i
        ELSE Len(s) - i + 1
      whole == digitsFrom(1)
      frac  == IF whole > 0 /\ whole < Len(s) /\ s[whole + 1] = "." THEN digitsFrom(whole + 2)
               ELSE 0
  IN  SubSeq(s, 1, IF frac > 0 THEN whole + 1 + frac ELSE whole)

\* What follows the leading number, stripped.
TrailingUnit(s) == Strip(SubSeq(s, Len(LeadingNumber(s)) + 1, Len(s)))

\* A net contents input that is a number, optional whitespace and a unit of
\* lowercase letters, dots and whitespace.
NumberAndUnit(s) ==
  /\ LeadingNumber(s) # <<>>
  /\ TrailingUnit(s) # <<>>
  /\ \A i \in 1..Len(TrailingUnit(s)) :
       TrailingUnit(s)[i] \in Range(LowerAlpha) \cup {"."} \cup Whitespace

\* C8: for an input that is a number and a unit, the check matches every text
\* that holds the number immediately followed by the unit, whatever the case;
\* input "750 ml" matches every text containing "750ml" or "750 ML".
C8_NetContents ==
  Returned =>
    LET s == NormalizeText(vform.net_contents)
    IN  /\ (NumberAndUnit(s) /\ Contains(Lower(vtext), LeadingNumber(s) \o TrailingUnit(s)))
             => Detail("net_contents").match
        /\ (vform.net_contents = <<"7","5","0"," ","m","l">>
              /\ (Contains(vtext, <<"7","5","0","m","l">>) \/ Contains(vtext, <<"7","5","0"," ","M","L">>)))
             => Detail("net_contents").match

\* C8 witness: input "750 ml" finds "750 ML" in a text without "750ml".
C8_Witness ==
  /\ Returned
  /\ vform.net_contents = <<"7","5","0"," ","m","l">>
  /\ Contains(vtext, <<"7","5","0"," ","M","L">>)
  /\ ~Contains(Lower(vtext), <<"7","5","0","m","l">>)
  /\ Detail("net_contents").match
  /\ Detail("net_contents").found = <<"7","5","0"," ","m","l">>

\* ------------------------------------------------------------------------
\* Calls of extract_text_from_image on bounded outcomes
\* ------------------------------------------------------------------------

\* The longest text Tesseract returns, in characters.
MaxOcrTextLen == 3

OcrPaths == {<<"/tmp/", "l", ".", "p", "n", "g">>, <<>>}

ExceptionMessages == {<<>>, <<"x">>}

\* What image_to_string returns before it is stripped.
RawTexts == Concats({<<" ">>, <<"\n">>, <<"a">>, <<"B">>}, MaxOcrTextLen)

RaisesOf(classes) == {Raise(c, m) : c \in classes, m \in ExceptionMessages}

\* os.path.exists, Image.open, _preprocess_image and image_to_string each
\* do what the environment decides.
OcrEnvs ==
  [path : OcrPaths,
   exists : BOOLEAN,
   open : {Return(<<"image">>)} \cup RaisesOf({"UnidentifiedImageError", "FileNotFoundError"}),
   preprocess : {Return(<<"image">>)} \cup RaisesOf({"TesseractError"}),
   recognize : {Return(text) : text \in RawTexts}
               \cup RaisesOf({"TesseractNotFoundError", "TesseractError"})]

InitOcr ==
  /\ oenv \in OcrEnvs
  /\ oresult = None
  /\ opc = "call"
  /\ VerifyOff
  /\ HttpOff

\* extract_text_from_image is called and returns or raises.
CallExtractText ==
  /\ opc = "call"
  /\ oresult' = ExtractTextFromImage(oenv)
  /\ opc' = "return"
  /\ UNCHANGED oenv
  /\ UNCHANGED verifyVars
  /\ UNCHANGED httpVars

NextOcr == CallExtractText

SpecOcr == InitOcr /\ [][NextOcr]_vars

\* The first of the three calls that raises, or the last one's return.
FirstRaise(env) ==
  IF env.open.raises THEN env.open
  ELSE IF env.preprocess.raises THEN env.preprocess
  ELSE env.recognize

\* The outcome of the call named from what the environment did.
OutcomeKind(env) ==
  IF ~env.exists THEN "file missing"
  ELSE IF FirstRaise(env).raises
       THEN IF FirstRaise(env).class = "TesseractNotFoundError" THEN "engine not installed"
            ELSE "other exception"
       ELSE IF Strip(env.recognize.value) = <<>> THEN "empty text" ELSE "text"

\* The failure a message names, read off its literal part.
MessageKind(error) ==
  CASE Head(error) = Head(EngineNotInstalled) -> "engine not installed"
    [] Head(error) = Head(NoTextFound) -> "empty text"
    [] Head(error) = "Error processing image: " -> "other exception"
    [] OTHER -> "file missing"

\* C4: extract_text_from_image never raises; success is true exactly when the
\* trimmed recognized text is not empty, and then text is that trimmed text and
\* error is None; a failure has text '' and a non-empty error; the engine, the
\* empty text and the generic failure are told apart by their messages.
C4_OcrContract ==
  (opc = "return") =>
    /\ ~oresult.raises
    /\ LET r == oresult.value
       IN  /\ r.success \in BOOLEAN
           /\ r.success <=> OutcomeKind(oenv) = "text"
           /\ r.success =>
                /\ r.text = Strip(oenv.recognize.value)
                /\ r.text # <<>>
                /\ r.error = None
           /\ ~r.success =>
                /\ r.text = <<>>
                /\ r.error # None
                /\ r.error # <<>> /\ Head(r.error) # ""
                /\ MessageKind(r.error) = OutcomeKind(oenv)

\* C4 witness: Tesseract returned a text with whitespace around it, and the
\* call succeeded with the trimmed text.
C4_Witness ==
  /\ opc = "return"
  /\ ~oresult.raises
  /\ oresult.value.success
  /\ oresult.value.text # oenv.recognize.value
  /\ Len(oresult.value.text) > 1

\* ------------------------------------------------------------------------
\* backend/app.py: POST /verify
\* ------------------------------------------------------------------------

\* ALLOWED_EXTENSIONS
AllowedExtensions == {<<"p","n","g">>, <<"j","p","g">>, <<"j","p","e","g">>, <<"g","i","f">>}

\* The index of the last "." of filename (0 if it has none).
LastDot(filename) ==
  LET dots == {i \in 1..Len(filename) : filename[i] = "."}
  IN  IF dots = {} THEN 0 ELSE CHOOSE i \in dots : \A j \in dots : j <= i

\* allowed_file compared without .lower().
AllowedFileCaseSensitive(filename) ==
  /\ LastDot(filename) > 0
  /\ SubSeq(filename, LastDot(filename) + 1, Len(filename)) \in AllowedExtensions

\* allowed_file: '.' in filename and filename.rsplit('.', 1)[1].lower() in ALLOWED_EXTENSIONS
AllowedFile(filename) ==
  /\ LastDot(filename) > 0
  /\ Lower(SubSeq(filename, LastDot(filename) + 1, Len(filename))) \in AllowedExtensions

\* The characters secure_filename keeps.
FilenameChars == Range(UpperAlpha) \cup Range(LowerAlpha) \cup Digits \cup {"_", ".", "-"}

\* s without its leading and trailing characters of the set cs.
StripChars(s, cs) ==
  LET keep == {i \in 1..Len(s) : s[i] \notin cs}
  IN  IF keep = {} THEN <<>>
      ELSE SubSeq(s, CHOOSE i \in keep : \A j \in keep : i <= j,
                     CHOOSE i \in keep : \A j \in keep : j <= i)

\* werkzeug's secure_filename: path separators and whitespace become "_", other
\* characters outside [A-Za-z0-9_.-] are dropped, leading and trailing dots
\* and underscores are stripped ("../../etc/passwd" becomes "etc_passwd").
SecureFilename(filename) ==
  LET joined == [i \in 1..Len(filename) |->
                   IF filename[i] \in {"/", " "} THEN "_" ELSE filename[i]]
  IN  StripChars(SelectSeq(joined, LAMBDA c : c \in FilenameChars), {".", "_"})

\* os.path.join(tempfile.gettempdir(), filename)
TempFilepath(filename) == <<"/tmp/">> \o filename

FormKeys == {"brand_name", "product_type", "abv", "net_contents"}

\* form_data with the fields as submitted, not stripped.
FormDataNotStripped(form) == [key \in FormKeys |-> Get(form, key, <<>>)]

\* form_data: request.form.get(key, '').strip() for the four fields
FormData(form) == [key \in FormKeys |-> Strip(Get(form, key, <<>>))]

\* [field for field in required_fields if not form_data[field]]
MissingFields(form_data) == SelectSeq(RequiredFields, LAMBDA field : ~Truthy(form_data[field]))

\* ', '.join(names)
RECURSIVE Join(_)
Join(names) ==
  IF names = <<>> THEN <<>>
  ELSE IF Len(names) = 1 THEN names
       ELSE <<Head(names), ", ">> \o Join(Tail(names))

\* jsonify({"success": False, "error": error}), status
ErrorResponse(status, error) ==
  [status |-> status, body |-> [success |-> FALSE, error |-> error]]

\* The orders in which ', '.join(ALLOWED_EXTENSIONS) can list the set: the
\* iteration order of a set of strings differs from one process to the next.
ExtensionOrders ==
  {order \in [1..4 -> AllowedExtensions] :
     \A ext \in AllowedExtensions : \E i \in 1..4 : order[i] = ext}

\* ', '.join(ALLOWED_EXTENSIONS), character by character
AllowedTypes(order) ==
  order[1] \o <<",", " ">> \o order[2] \o <<",", " ">> \o order[3] \o <<",", " ">> \o order[4]

\* Steps 1 and 2 of verify(): the error of a request that fails validation,
\* None for one that passes.
ValidationError(req, order) ==
  IF "image" \notin DOMAIN req.files
  THEN <<"No image file provided. Please upload an image of the alcohol label.">>
  ELSE IF req.files["image"].filename = <<>>
  THEN <<"No file selected. Please choose an image file.">>
  ELSE IF ~AllowedFile(req.files["image"].filename)
  THEN <<"Invalid file type. Allowed types: ">> \o AllowedTypes(order)
  ELSE IF MissingFields(FormData(req.form)) # <<>>
  THEN <<"Missing required fields: ">> \o Join(MissingFields(FormData(req.form)))
  ELSE None

NoFrame ==
  [form_data |-> None, temp_filepath |-> None, ocr_result |-> None,
   verification_result |-> None, e |-> None]

\* The request's own record of what it did: one entry per step taken.
Logged(r, entry) == [log EXCEPT ![r] = Append(@, entry)]

\* The response is returned.
Respond(r, resp) ==
  /\ response' = [response EXCEPT ![r] = resp]
  /\ pc' = [pc EXCEPT ![r] = "done"]

\* os.path.exists(temp_filepath)
TempExists(r) == frame[r].temp_filepath \in DOMAIN fs

\* The directory after os.remove(path).
Removed(files, path) == [q \in DOMAIN files \ {path} |-> files[q]]

\* The request arrives.
Receive(r, inputs) ==
  /\ pc[r] = "idle"
  /\ \E req \in inputs : request' = [request EXCEPT ![r] = req]
  /\ pc' = [pc EXCEPT ![r] = "validate"]
  /\ UNCHANGED <<frame, response, fs, log>>
  /\ UNCHANGED <<verifyVars, ocrVars>>

\* verify() with the upload saved before the form is validated: a request
\* with a file is refused only after its file is written.
ValidateSavesFirst(r) ==
  /\ pc[r] = "validate"
  /\ \E order \in ExtensionOrders :
       LET error == ValidationError(request[r], order)
           named == "image" \in DOMAIN request[r].files
                      /\ request[r].files["image"].filename # <<>>
       IN  IF error # None
           THEN /\ Respond(r, ErrorResponse(400, error))
                /\ log' = [log EXCEPT ![r] = @ \o
                             (IF named THEN <<[op |-> "save", ok |-> TRUE]>> ELSE <<>>) \o
                             <<[op |-> "respond", status |-> 400, temp_left |-> named]>>]
                /\ fs' = IF named
                         THEN (TempFilepath(SecureFilename(request[r].files["image"].filename)) :>
                                 [owner |-> r, image |-> request[r].files["image"].image]) @@ fs
                         ELSE fs
                /\ UNCHANGED frame
           ELSE /\ frame' = [frame EXCEPT ![r] =
                     [@ EXCEPT !.form_data = FormData(request[r].form),
                               !.temp_filepath =
                                  TempFilepath(SecureFilename(request[r].files["image"].filename))]]
                /\ pc' = [pc EXCEPT ![r] = "save"]
                /\ log' = Logged(r, [op |-> "validated"])
                /\ UNCHANGED <<response, fs>>
  /\ UNCHANGED request
  /\ UNCHANGED <<verifyVars, ocrVars>>

\* verify() lines 128-180: validation, form_data, temp_filepath.
Validate(r) ==
  /\ pc[r] = "validate"
  /\ \E order \in ExtensionOrders :
       LET error == ValidationError(request[r], order)
       IN  IF error # None
           THEN /\ Respond(r, ErrorResponse(400, error))
                /\ log' = Logged(r, [op |-> "respond", status |-> 400, temp_left |-> FALSE])
                /\ UNCHANGED frame
           ELSE /\ frame' = [frame EXCEPT ![r] =
                     [@ EXCEPT !.form_data = FormData(request[r].form),
                               !.temp_filepath =
                                  TempFilepath(SecureFilename(request[r].files["image"].filename))]]
                /\ pc' = [pc EXCEPT ![r] = "save"]
                /\ log' = Logged(r, [op |-> "validated"])
                /\ UNCHANGED response
  /\ UNCHANGED <<request, fs>>
  /\ UNCHANGED <<verifyVars, ocrVars>>

\* file.save(temp_filepath) writes the upload to the path.
Save(r) ==
  /\ pc[r] = "save"
  /\ fs' = (frame[r].temp_filepath :>
              [owner |-> r, image |-> request[r].files["image"].image]) @@ fs
  /\ pc' = [pc EXCEPT ![r] = "ocr_exists"]
  /\ log' = Logged(r, [op |-> "save", ok |-> TRUE])
  /\ UNCHANGED <<request, frame, response>>
  /\ UNCHANGED <<verifyVars, ocrVars>>

\* file.save raises (the disk is full, say); the path is left as it was, or
\* holds the part written.
SaveRaises(r) ==
  /\ pc[r] = "save"
  /\ \E written \in BOOLEAN :
       fs' = IF written
             THEN (frame[r].temp_filepath :> [owner |-> r, image |-> "partial"]) @@ fs
             ELSE fs
  /\ frame' = [frame EXCEPT ![r].e = Raise("OSError", <<"x">>)]
  /\ pc' = [pc EXCEPT ![r] = "except_exists"]
  /\ log' = Logged(r, [op |-> "save", ok |-> FALSE])
  /\ UNCHANGED <<request, response>>
  /\ UNCHANGED <<verifyVars, ocrVars>>

\* What Tesseract reads off each uploaded image, before stripping.
ImageText(image) ==
  CASE image = "label" -> <<" ","a"," ","b"," ","4","5","%"," ","g","o","v">> \o <<"\n">>
    [] image = "blank" -> <<" ", "\n">>
    [] OTHER -> <<>>

\* What can go wrong in one call of the OCR service, besides the file.
OcrFaults == {"none", "engine missing", "corrupt image"}

\* The outcomes of Image.open, _preprocess_image and image_to_string for the
\* file the path holds now: a file removed since os.path.exists is not found,
\* a partly written one cannot be opened.
OcrEnv(path, files, fault) ==
  [path |-> path,
   exists |-> TRUE,
   open |-> IF path \notin DOMAIN files THEN Raise("FileNotFoundError", <<"x">>)
            ELSE IF fault = "corrupt image" \/ files[path].image = "partial"
                 THEN Raise("UnidentifiedImageError", <<"x">>)
                 ELSE Return(<<"image">>),
   preprocess |-> Return(<<"image">>),
   recognize |-> IF fault = "engine missing" THEN Raise("TesseractNotFoundError", <<>>)
                 ELSE IF path \in DOMAIN files THEN Return(ImageText(files[path].image))
                      ELSE Return(<<>>)]

\* Whose file the OCR step read.
ReadFrom(path, files) == IF path \in DOMAIN files THEN files[path].owner ELSE 0

\* extract_text_from_image, step 1: os.path.exists(image_path). A missing file
\* ends the call, and verify() returns 500 with its error.
OcrExists(r) ==
  /\ pc[r] = "ocr_exists"
  /\ IF TempExists(r)
     THEN /\ pc' = [pc EXCEPT ![r] = "ocr_recognize"]
          /\ UNCHANGED <<frame, response, log>>
     ELSE LET ocr_result ==
                ExtractTextFromImage([path |-> frame[r].temp_filepath, exists |-> FALSE]).value
          IN  /\ frame' = [frame EXCEPT ![r].ocr_result = ocr_result]
              /\ Respond(r, ErrorResponse(500, ocr_result.error))
              /\ log' = [log EXCEPT ![r] = @ \o
                           <<[op |-> "ocr", read |-> 0],
                             [op |-> "respond", status |-> 500, temp_left |-> FALSE]>>]
  /\ UNCHANGED <<request, fs>>
  /\ UNCHANGED <<verifyVars, ocrVars>>

\* Step 4 of verify() without the check of ocr_result["success"]: every OCR
\* result goes on to the verification.
OcrRecognizeUnchecked(r) ==
  /\ pc[r] = "ocr_recognize"
  /\ \E fault \in OcrFaults :
       LET path == frame[r].temp_filepath
           out  == ExtractTextFromImage(OcrEnv(path, fs, fault))
           read == [op |-> "ocr", read |-> ReadFrom(path, fs)]
       IN  /\ frame' = IF out.raises THEN [frame EXCEPT ![r].e = out]
                       ELSE [frame EXCEPT ![r].ocr_result = out.value]
           /\ pc' = [pc EXCEPT ![r] = IF out.raises THEN "except_exists" ELSE "verify"]
           /\ log' = Logged(r, read)
  /\ UNCHANGED <<request, response, fs>>
  /\ UNCHANGED <<verifyVars, ocrVars>>

\* extract_text_from_image, steps 2 to 5, and verify()'s check of its result:
\* a failure is returned as a 500 at once.
OcrRecognize(r) ==
  /\ pc[r] = "ocr_recognize"
  /\ \E fault \in OcrFaults :
       LET path == frame[r].temp_filepath
           out  == ExtractTextFromImage(OcrEnv(path, fs, fault))
           read == [op |-> "ocr", read |-> ReadFrom(path, fs)]
           failed == ~out.raises /\ ~out.value.success
       IN  /\ frame' = IF out.raises THEN [frame EXCEPT ![r].e = out]
                       ELSE [frame EXCEPT ![r].ocr_result = out.value]
           /\ pc' = [pc EXCEPT ![r] = IF out.raises THEN "except_exists"
                                      ELSE IF failed THEN "done" ELSE "verify"]
           /\ response' = IF failed
                          THEN [response EXCEPT ![r] = ErrorResponse(500, out.value.error)]
                          ELSE response
           /\ log' = IF failed
                     THEN [log EXCEPT ![r] = @ \o
                             <<read, [op |-> "respond", status |-> 500,
                                      temp_left |-> TempExists(r)]>>]
                     ELSE Logged(r, read)
  /\ UNCHANGED <<request, fs>>
  /\ UNCHANGED <<verifyVars, ocrVars>>

\* verification_service.verify_label(form_data, ocr_result["text"])
Verify(r) ==
  /\ pc[r] = "verify"
  /\ frame' = [frame EXCEPT ![r].verification_result =
                 VerifyLabel(frame[r].form_data, frame[r].ocr_result.text)]
  /\ pc' = [pc EXCEPT ![r] = "cleanup_exists"]
  /\ log' = Logged(r, [op |-> "verify"])
  /\ UNCHANGED <<request, response, fs>>
  /\ UNCHANGED <<verifyVars, ocrVars>>

\* Step 6: if os.path.exists(temp_filepath)
CleanupExists(r) ==
  /\ pc[r] = "cleanup_exists"
  /\ pc' = [pc EXCEPT ![r] = IF TempExists(r) THEN "cleanup_remove" ELSE "respond"]
  /\ UNCHANGED <<request, frame, response, fs, log>>
  /\ UNCHANGED <<verifyVars, ocrVars>>

\* Step 6: os.remove(temp_filepath); a file gone since the check raises
\* FileNotFoundError, which the except clause catches.
CleanupRemove(r) ==
  /\ pc[r] = "cleanup_remove"
  /\ IF TempExists(r)
     THEN /\ fs' = Removed(fs, frame[r].temp_filepath)
          /\ pc' = [pc EXCEPT ![r] = "respond"]
          /\ log' = Logged(r, [op |-> "remove", of |-> fs[frame[r].temp_filepath].owner])
          /\ UNCHANGED frame
     ELSE /\ frame' = [frame EXCEPT ![r].e = Raise("FileNotFoundError", <<"x">>)]
          /\ pc' = [pc EXCEPT ![r] = "except_exists"]
          /\ UNCHANGED <<fs, log>>
  /\ UNCHANGED <<request, response>>
  /\ UNCHANGED <<verifyVars, ocrVars>>

\* Step 7: the 200 response.
Respond200(r) ==
  /\ pc[r] = "respond"
  /\ Respond(r, [status |-> 200,
                 body |-> [success |-> TRUE,
                           overall_match |-> frame[r].verification_result.overall_match,
                           details |-> frame[r].verification_result.details,
                           ocr_text |-> frame[r].verification_result.ocr_text]])
  /\ log' = Logged(r, [op |-> "respond", status |-> 200, temp_left |-> TempExists(r)])
  /\ UNCHANGED <<request, frame, fs>>
  /\ UNCHANGED <<verifyVars, ocrVars>>

\* except Exception: if os.path.exists(temp_filepath)
ExceptExists(r) ==
  /\ pc[r] = "except_exists"
  /\ pc' = [pc EXCEPT ![r] = IF TempExists(r) THEN "except_remove" ELSE "except_respond"]
  /\ UNCHANGED <<request, frame, response, fs, log>>
  /\ UNCHANGED <<verifyVars, ocrVars>>

\* except Exception: os.remove(temp_filepath); a file gone since the check
\* raises FileNotFoundError out of verify().
ExceptRemove(r) ==
  /\ pc[r] = "except_remove"
  /\ IF TempExists(r)
     THEN /\ fs' = Removed(fs, frame[r].temp_filepath)
          /\ pc' = [pc EXCEPT ![r] = "except_respond"]
          /\ log' = Logged(r, [op |-> "remove", of |-> fs[frame[r].temp_filepath].owner])
          /\ UNCHANGED frame
     ELSE /\ frame' = [frame EXCEPT ![r].e = Raise("FileNotFoundError", <<"x">>)]
          /\ pc' = [pc EXCEPT ![r] = "unhandled"]
          /\ UNCHANGED <<fs, log>>
  /\ UNCHANGED <<request, response>>
  /\ UNCHANGED <<verifyVars, ocrVars>>

\* except Exception: the 500 response with str(e).
ExceptRespond(r) ==
  /\ pc[r] = "except_respond"
  /\ Respond(r, ErrorResponse(500, <<"Server error: ">> \o frame[r].e.msg))
  /\ log' = Logged(r, [op |-> "respond", status |-> 500, temp_left |-> TempExists(r)])
  /\ UNCHANGED <<request, frame, fs>>
  /\ UNCHANGED <<verifyVars, ocrVars>>

\* An exception left verify(): Flask answers 500, through internal_error, or
\* with the debugger's page when it runs as app.run(debug=True).
Unhandled(r) ==
  /\ pc[r] = "unhandled"
  /\ \E debug \in BOOLEAN :
       Respond(r, IF debug THEN [status |-> 500, body |-> [html |-> "debugger"]]
                  ELSE ErrorResponse(500,
                         <<"Internal server error. Please check server logs.">>))
  /\ log' = Logged(r, [op |-> "respond", status |-> 500, temp_left |-> TempExists(r)])
  /\ UNCHANGED <<request, frame, fs>>
  /\ UNCHANGED <<verifyVars, ocrVars>>

\* One step of request r, which arrives with one of the inputs.
Handle(r, inputs) ==
  \/ Receive(r, inputs)
  \/ Validate(r)
  \/ Save(r)
  \/ SaveRaises(r)
  \/ OcrExists(r)
  \/ OcrRecognize(r)
  \/ Verify(r)
  \/ CleanupExists(r)
  \/ CleanupRemove(r)
  \/ Respond200(r)
  \/ ExceptExists(r)
  \/ ExceptRemove(r)
  \/ ExceptRespond(r)
  \/ Unhandled(r)

\* An upload: request.files['image'].
Upload(filename, image) == "image" :> [filename |-> filename, image |-> image]

\* A form with the fields that are not None.
Form(brand_name, product_type, abv, net_contents) ==
  LET given == [brand_name |-> brand_name, product_type |-> product_type,
                abv |-> abv, net_contents |-> net_contents]
  IN  [key \in {k \in FormKeys : given[k] # None} |-> given[key]]

\* --- concurrent requests --------------------------------------------------

\* The number of requests in flight together.
NumRequests == 2

Requests == 1..NumRequests

\* Uploads whose names meet in one temporary path, one that does not, and
\* one that is refused; a form that passes validation and one that does not.
ConcurrentInputs ==
  [files : {Upload(<<"a",".","p","n","g">>, "label"), Upload(<<".",".","/","a",".","p","n","g">>, "blank"),
            Upload(<<"b",".","g","i","f">>, "label"), Upload(<<"c",".","b","m","p">>, "label")},
   form : {Form(<<"a">>, <<"b">>, <<"4","5">>, <<>>), Form(<<"a">>, <<" ">>, <<"4","5">>, <<>>)}]

InitHttp(requests) ==
  /\ pc = [r \in requests |-> "idle"]
  /\ request = [r \in requests |-> None]
  /\ frame = [r \in requests |-> NoFrame]
  /\ response = [r \in requests |-> None]
  /\ fs = <<>>
  /\ log = [r \in requests |-> <<>>]
  /\ VerifyOff
  /\ OcrOff

Init == InitHttp(Requests)

Next == \E r \in Requests : Handle(r, ConcurrentInputs)

Spec == Init /\ [][Next]_vars

\* --- one request, every input ---------------------------------------------

FileNames == {<<>>, <<"a",".","p","n","g">>, <<"A",".","J","P","G">>, <<".",".","/","a",".","p","n","g">>, <<"b",".","j","p","e","g">>, <<"c",".","b","m","p">>, <<"g","i","f">>, <<"a",".","g","i","f",".","t","x","t">>}

\* request.files: no image part, or an upload under one of the names.
RequestFiles == {<<>>} \cup {Upload(name, image) : name \in FileNames, image \in {"label", "blank"}}

\* request.form: each field absent, empty, blank or filled.
RequestForms ==
  {Form(b, p, a, n) : b \in {None, <<>>, <<" ">>, <<" ","a"," ">>},
                      p \in {None, <<" ">>, <<"b">>},
                      a \in {None, <<>>, <<"4","5","%">>},
                      n \in {None, <<"7","5","0"," ","m","l">>}}

RequestInputs == [files : RequestFiles, form : RequestForms]

InitRequest == InitHttp({1})

\* The steps of the one request. Nothing else touches the directory, so no
\* os.remove finds its file gone and no exception leaves verify().
NextRequest ==
  \/ Receive(1, RequestInputs)
  \/ Validate(1)
  \/ Save(1)
  \/ SaveRaises(1)
  \/ OcrExists(1)
  \/ OcrRecognize(1)
  \/ Verify(1)
  \/ CleanupExists(1)
  \/ CleanupRemove(1)
  \/ Respond200(1)
  \/ ExceptExists(1)
  \/ ExceptRemove(1)
  \/ ExceptRespond(1)

SpecRequest == InitRequest /\ [][NextRequest]_vars

\* ------------------------------------------------------------------------
\* Properties of POST /verify
\* ------------------------------------------------------------------------

Done(r) == pc[r] = "done"

\* The request wrote its upload to its temporary path.
SavedUpload(r) == \E i \in 1..Len(log[r]) : log[r][i].op = "save" /\ log[r][i].ok

\* The entry of the response: the last of a finished request's log.
Responded(r) == log[r][Len(log[r])]

\* C2 as stated: a request that saved its upload leaves no file at its
\* temporary path when its response is returned, whatever the exit path.
C2_TempFileDeleted ==
  \A r \in Requests : (Done(r) /\ SavedUpload(r)) => ~Responded(r).temp_left

\* The places of verify() between file.save and the request's own os.remove.
HoldsTempFile == {"ocr_exists", "ocr_recognize", "verify", "cleanup_exists", "cleanup_remove"}

\* C3 as stated: the OCR step of a request reads the image this request saved,
\* and while the request is in progress its temporary file is there and is
\* its own: no other request has overwritten or deleted it.
C3_RequestScoped ==
  \A r \in Requests :
    /\ \A i \in 1..Len(log[r]) : log[r][i].op = "ocr" => log[r][i].read = r
    /\ pc[r] \in HoldsTempFile => (TempExists(r) /\ fs[frame[r].temp_filepath].owner = r)

\* s is empty after trimming.
Blank(s) == \A i \in 1..Len(s) : s[i] \in Whitespace

\* name ends, whatever the case, with a dot and one of png, jpg, jpeg, gif.
HasAllowedExtension(name) ==
  \E ext \in {<<"p","n","g">>, <<"j","p","g">>, <<"j","p","e","g">>, <<"g","i","f">>} :
    /\ Len(name) > Len(ext)
    /\ Lower(SubSeq(name, Len(name) - Len(ext), Len(name))) = <<".">> \o ext

\* A required field that is missing or empty after trimming.
BlankRequired(req) ==
  {key \in {"brand_name", "product_type", "abv"} :
     key \notin DOMAIN req.form \/ Blank(req.form[key])}

\* The validation errors: no image part, no file name, a disallowed extension,
\* a required field missing or blank.
InvalidRequest(req) ==
  \/ "image" \notin DOMAIN req.files
  \/ req.files["image"].filename = <<>>
  \/ ~HasAllowedExtension(req.files["image"].filename)
  \/ BlankRequired(req) # {}

\* C9: the status is 400 exactly for a request with no image part, an empty
\* file name, a file name without an allowed extension, or a required field
\* missing or empty after trimming; every other request gets 200 or 500.
C9_Status400IffInvalid ==
  Done(1) =>
    /\ response[1].status = 400 <=> InvalidRequest(request[1])
    /\ response[1].status \in {200, 400, 500}

\* C9 witness: a request with an allowed upload whose brand_name is blank, not
\* empty, is answered 400.
C9_Witness ==
  /\ Done(1)
  /\ response[1].status = 400
  /\ "image" \in DOMAIN request[1].files
  /\ request[1].files["image"].filename = <<"A",".","J","P","G">>
  /\ BlankRequired(request[1]) = {"brand_name"}
  /\ "brand_name" \in DOMAIN request[1].form
  /\ request[1].form["brand_name"] = <<" ">>

\* The form is empty: brand_name, product_type and abv are all absent or blank.
EmptyForm(req) == BlankRequired(req) = {"brand_name", "product_type", "abv"}

AllMissing ==
  <<"Missing required fields: ", "brand_name", ", ", "product_type", ", ", "abv">>

\* C10 as stated: an empty form with any uploaded image file is answered 400
\* with an error that begins "Missing required fields:" and lists the fields.
C10_Original ==
  (/\ Done(1)
   /\ "image" \in DOMAIN request[1].files
   /\ request[1].files["image"].filename # <<>>
   /\ EmptyForm(request[1]))
    => (response[1].status = 400 /\ response[1].body.error = AllMissing)

\* C10 amended: an empty form with an uploaded file whose name has an allowed
\* extension is answered 400 with "Missing required fields: brand_name,
\* product_type, abv".
C10_EmptyForm ==
  (/\ Done(1)
   /\ "image" \in DOMAIN request[1].files
   /\ HasAllowedExtension(request[1].files["image"].filename)
   /\ EmptyForm(request[1]))
    => (response[1].status = 400 /\ response[1].body.error = AllMissing)

\* C10 witness: an empty form, one field blank and one absent, with an allowed
\* upload got the "Missing required fields" answer.
C10_Witness ==
  /\ Done(1)
  /\ EmptyForm(request[1])
  /\ "image" \in DOMAIN request[1].files
  /\ HasAllowedExtension(request[1].files["image"].filename)
  /\ "abv" \notin DOMAIN request[1].form
  /\ "brand_name" \in DOMAIN request[1].form
  /\ request[1].form["brand_name"] = <<" ">>
  /\ response[1].status = 400
  /\ Head(response[1].body.error) = "Missing required fields: "

\* The OCR service was called and returned to verify().
OcrReturned(r) == \E i \in 1..Len(log[r]) : log[r][i].op = "ocr"

\* The verification service was called.
Verified(r) == \E i \in 1..Len(log[r]) : log[r][i].op = "verify"

\* The errors extract_text_from_image describes a failure with.
OcrErrors(error) ==
  \/ error \in {NoTextFound, EngineNotInstalled}
  \/ Head(error) \in {"Error processing image: ", "Image file not found: "}

\* C11: when the OCR step of a validated request reports success = false the
\* response is 500 with success = false and the OCR step's error, which for
\* an image without text is "No text could be extracted..."; the verification
\* service is not called and the body carries no overall_match or details.
C11_OcrFailureIs500 ==
  (Done(1) /\ OcrReturned(1) /\ ~frame[1].ocr_result.success) =>
    /\ response[1].status = 500
    /\ DOMAIN response[1].body = {"success", "error"}
    /\ response[1].body.success = FALSE
    /\ response[1].body.error = frame[1].ocr_result.error
    /\ OcrErrors(response[1].body.error)
    /\ Strip(ImageText(request[1].files["image"].image)) = <<>> =>
         response[1].body.error \in {NoTextFound, EngineNotInstalled}
           \/ Head(response[1].body.error) = "Error processing image: "
    /\ ~Verified(1)

\* C11 witness: the OCR of a blank image found no text, and the request was
\* answered 500 with "No text could be extracted...".
C11_Witness ==
  /\ Done(1)
  /\ OcrReturned(1)
  /\ ~frame[1].ocr_result.success
  /\ request[1].files["image"].image = "blank"
  /\ response[1].status = 500
  /\ response[1].body.error = NoTextFound

\* C12 as stated: every response has a success flag, which is true exactly
\* with status 200, when overall_match, details and ocr_text are present;
\* every other response has status 400, 404, 413 or 500, success = false and
\* a non-empty error.
C12_ResponseShape ==
  \A r \in Requests :
    Done(r) =>
      LET status == response[r].status
          body   == response[r].body
      IN  /\ "success" \in DOMAIN body
          /\ status = 200 <=> body.success
          /\ status = 200 => {"overall_match", "details", "ocr_text"} \subseteq DOMAIN body
          /\ status # 200 =>
               /\ status \in {400, 404, 413, 500}
               /\ ~body.success
               /\ "error" \in DOMAIN body
               /\ body.error # <<>>

\* text goes on from position j with optional whitespace and then "%".
PercentFollows(text, j) ==
  \E k \in j..Len(text) :
    /\ text[k] = "%"
    /\ \A m \in j..(k - 1) : text[m] \in Whitespace

\* number stands in text as a complete number before a "%": not right after
\* a digit or after the decimal point of a longer number, and followed by an
\* optional ".0", optional whitespace and "%".
CompleteNumberPercent(text, number) ==
  \E i \in 1..(Len(text) - Len(number) + 1) :
    LET j == i + Len(number)
    IN  /\ SubSeq(text, i, j - 1) = number
        /\ i > 1 => text[i - 1] \notin Digits
        /\ i > 2 => ~(text[i - 1] = "." /\ text[i - 2] \in Digits)
        /\ \/ PercentFollows(text, j)
           \/ SubSeq(text, j, j + 1) = <<".", "0">> /\ PercentFollows(text, j + 2)

\* The number of the ABV input: the input without its "%".
AbvNumber == SelectSeq(vform.abv, LAMBDA c : c # "%")

\* C13 as stated: _check_abv matches only if the text contains the input
\* number as a complete number, not as part of a longer integer or decimal
\* number, followed by an optional ".0", optional whitespace and "%".
C13_WholeNumbersOnly ==
  (Returned /\ Detail("abv").match) => CompleteNumberPercent(vtext, AbvNumber)

\* C14 as stated: the pattern allows optional whitespace between number and
\* unit, any case of the unit and optional periods in the unit: input
\* "12 fl oz" matches a text containing "12 fl. oz", "12 FL OZ" or "12fl oz".
C14_FlexibleUnit ==
  (Returned /\ vform.net_contents = <<"1","2"," ","f","l"," ","o","z">>) =>
    ((Contains(vtext, <<"1","2"," ","f","l","."," ","o","z">>) \/ Contains(vtext, <<"1","2"," ","F","L"," ","O","Z">>) \/ Contains(vtext, <<"1","2","f","l"," ","o","z">>))
       => Detail("net_contents").match)

\* The places of the entries of request r's log that record the step op.
Steps(r, op) == {i \in 1..Len(log[r]) : log[r][i].op = op}

\* Every step a of request r comes after a step b.
After(r, a, b) == \A i \in Steps(r, a) : \E j \in Steps(r, b) : j < i

\* C15: a request answered 400 saved nothing and called neither the OCR nor
\* the verification service; in every request the save follows the
\* validation, the OCR a save that succeeded, the verification an OCR that
\* reported success = true, and the OCR is called at most once.
C15_NoSideEffects ==
  /\ (Done(1) /\ response[1].status = 400) =>
       /\ Steps(1, "save") = {} /\ Steps(1, "ocr") = {} /\ Steps(1, "verify") = {}
       /\ Steps(1, "validated") = {}
       /\ fs = <<>>
  /\ After(1, "save", "validated")
  /\ After(1, "ocr", "save")
  /\ \A i \in Steps(1, "ocr") : \E j \in Steps(1, "save") : j < i /\ log[1][j].ok
  /\ After(1, "verify", "ocr")
  /\ Cardinality(Steps(1, "ocr")) <= 1
  /\ Cardinality(Steps(1, "save")) <= 1
  /\ Steps(1, "verify") # {} => frame[1].ocr_result.success

\* C15 witness: a request with an allowed upload and a blank field was
\* answered 400 and left the directory as it was.
C15_Witness ==
  /\ Done(1)
  /\ response[1].status = 400
  /\ "image" \in DOMAIN request[1].files
  /\ HasAllowedExtension(request[1].files["image"].filename)
  /\ Head(response[1].body.error) = "Missing required fields: "
  /\ Len(log[1]) = 1
  /\ fs = <<>>

\* C16 as stated: in every entry of details, match is true exactly when found
\* is a non-empty string, and false exactly when the entry carries an error
\* message and found is None.
C16_MatchIffFound ==
  Returned =>
    \A field \in DOMAIN results.details :
      LET d == Detail(field)
      IN  /\ d.match <=> (d.found # None /\ d.found # <<>>)
          /\ ~d.match <=> ("error" \in DOMAIN d /\ d.found = None)

====
